---- MODULE Spec2Model ----
(***************************************************************************)
(* A model of census-api-averages: the shapefile downloader, the           *)
(* statistics fetchers, the aggregators and the CLI driver.                *)
(*                                                                         *)
(* Each component has its own specification (SpecShp, SpecFetch, SpecAvg,  *)
(* SpecRuca, SpecWeights, SpecDriver); the variables of the components a   *)
(* specification does not exercise stay at their idle values.              *)
(***************************************************************************)
EXTENDS Integers, Sequences, FiniteSets, TLC

VARIABLES
    files,      \* the file system: a set of [dir, name] entries
    shp,        \* the running download_shapefile call (or the last one)
    shpDone,    \* keys <<year, state, dir>> of calls that downloaded all four
    shpCalls,   \* number of download_shapefile calls started
    df,         \* the caller's table (column name -> sequence of cells)
    df0,        \* the table as it was handed to the first call
    agg,        \* the last aggregator call: its arguments and its outcome
    fetch,      \* the last fetcher call: request, response and outcome
    drv         \* the CLI driver run

vars == <<files, shp, shpDone, shpCalls, df, df0, agg, fetch, drv>>

shpVars == <<files, shp, shpDone, shpCalls>>
aggVars == <<df, df0, agg>>
notShpVars == <<aggVars, fetch, drv>>
notAggVars == <<shpVars, fetch, drv>>
notFetchVars == <<shpVars, aggVars, drv>>
notDrvVars == <<shpVars, aggVars, fetch>>

(***************************************************************************)
(* Bounds                                                                  *)
(***************************************************************************)
MaxShpCalls == 2
NRows == 2

(***************************************************************************)
(* Shapefile downloader (src/census_averages/utils.py, download_shapefile) *)
(***************************************************************************)
geographies == <<"state", "county", "tract", "bg">>

Years == {"2019", "2020"}
StateCodes == {"27", "55"}
Dirs == {"shp"}

\* os.path.join(dest_dir, f"tl_{year}_{geography}.zip")
ZipPath(dir, year, geography) ==
    [dir |-> dir, name |-> <<"tl_", year, "_", geography, ".zip">>]

\* The last path segment of the URL an archive is fetched from.
UrlBasename(year, state, geography) ==
    IF geography \in {"tract", "bg"}
    THEN <<"tl_", year, "_", state, "_", geography, ".zip">>
    ELSE <<"tl_", year, "_", "us", "_", geography, ".zip">>

\* The URL requested for a geography: tract and bg are per state, the others
\* are national files.
ShpUrl(year, state, geography) ==
    <<"https://www2.census.gov/geo/tiger/TIGER", year, "/", geography, "/">>
        \o UrlBasename(year, state, geography)

\* os.path.exists(zip_path)
Exists(fs, path) == path \in fs

\* A plausible slip: the archive is saved under the URL's file name.
WrittenArchiveUrlName(dir, year, state, geography) ==
    [dir |-> dir, name |-> UrlBasename(year, state, geography)]

\* open(zip_path, "wb"): the file the response body is written to.
WrittenArchive(dir, year, state, geography) == ZipPath(dir, year, geography)

\* zip_ref.extractall(dest_dir): the members of the archive served at the URL,
\* one boundary file named after the archive.
Extracted(dir, year, state, geography) ==
    LET base == UrlBasename(year, state, geography)
    IN {[dir |-> dir, name |-> SubSeq(base, 1, Len(base) - 1) \o <<".shp">>]}

ShpIdle ==
    [pc |-> "idle", year |-> "", state |-> "", dir |-> "", idx |-> 0,
     attempts |-> <<>>, log |-> <<>>, startFiles |-> {}, repeat |-> FALSE]

ShpInit ==
    /\ files = {}
    /\ shp = ShpIdle
    /\ shpDone = {}
    /\ shpCalls = 0

\* A call download_shapefile(year, state, dest_dir) begins.
ShpCall(year, state, dir) ==
    /\ shp.pc \in {"idle", "returned", "raised"}
    /\ shpCalls < MaxShpCalls
    /\ shp' = [pc |-> "loop", year |-> year, state |-> state, dir |-> dir,
               idx |-> 1, attempts |-> <<>>, log |-> <<>>, startFiles |-> files,
               repeat |-> (<<year, state, dir>> \in shpDone)]
    /\ shpCalls' = shpCalls + 1
    /\ UNCHANGED <<files, shpDone, notShpVars>>

ShpGeo == geographies[shp.idx]

ShpInLoop == shp.pc = "loop" /\ shp.idx <= Len(geographies)

\* The archive is already there: no request, a message.
ShpSkip ==
    /\ ShpInLoop
    /\ Exists(files, ZipPath(shp.dir, shp.year, ShpGeo))
    /\ shp' = [shp EXCEPT !.idx = @ + 1,
                          !.attempts = Append(@, [geo |-> ShpGeo, outcome |-> "skipped"]),
                          !.log = Append(@, <<"File already exists",
                                              ZipPath(shp.dir, shp.year, ShpGeo).name>>)]
    /\ UNCHANGED <<files, shpDone, shpCalls, notShpVars>>

\* Status 200: the body is written to the archive and the archive extracted.
ShpDownload ==
    /\ ShpInLoop
    /\ ~Exists(files, ZipPath(shp.dir, shp.year, ShpGeo))
    /\ files' = files \cup {WrittenArchive(shp.dir, shp.year, shp.state, ShpGeo)}
                      \cup Extracted(shp.dir, shp.year, shp.state, ShpGeo)
    /\ shp' = [shp EXCEPT !.idx = @ + 1,
                          !.attempts = Append(@, [geo |-> ShpGeo, outcome |-> "downloaded"])]
    /\ UNCHANGED <<shpDone, shpCalls, notShpVars>>

\* A plausible slip: the first failed download ends the pass.
ShpHttpErrorAborts ==
    /\ ShpInLoop
    /\ ~Exists(files, ZipPath(shp.dir, shp.year, ShpGeo))
    /\ shp' = [shp EXCEPT !.pc = "returned",
                          !.attempts = Append(@, [geo |-> ShpGeo, outcome |-> "http_error"]),
                          !.log = Append(@, <<"Error downloading file from the URL",
                                              ShpUrl(shp.year, shp.state, ShpGeo)>>)]
    /\ UNCHANGED <<files, shpDone, shpCalls, notShpVars>>

\* Any other status: the error is printed with the URL and the loop goes on.
ShpHttpError ==
    /\ ShpInLoop
    /\ ~Exists(files, ZipPath(shp.dir, shp.year, ShpGeo))
    /\ shp' = [shp EXCEPT !.idx = @ + 1,
                          !.attempts = Append(@, [geo |-> ShpGeo, outcome |-> "http_error"]),
                          !.log = Append(@, <<"Error downloading file from the URL",
                                              ShpUrl(shp.year, shp.state, ShpGeo)>>)]
    /\ UNCHANGED <<files, shpDone, shpCalls, notShpVars>>

\* requests.get raises (no connection): nothing catches it, the call ends.
ShpRequestRaises ==
    /\ ShpInLoop
    /\ ~Exists(files, ZipPath(shp.dir, shp.year, ShpGeo))
    /\ shp' = [shp EXCEPT !.pc = "raised",
                          !.attempts = Append(@, [geo |-> ShpGeo, outcome |-> "raised"])]
    /\ UNCHANGED <<files, shpDone, shpCalls, notShpVars>>

\* Status 200 with a body that is no archive: the file is written, ZipFile
\* raises, the call ends.
ShpBadArchive ==
    /\ ShpInLoop
    /\ ~Exists(files, ZipPath(shp.dir, shp.year, ShpGeo))
    /\ files' = files \cup {WrittenArchive(shp.dir, shp.year, shp.state, ShpGeo)}
    /\ shp' = [shp EXCEPT !.pc = "raised",
                          !.attempts = Append(@, [geo |-> ShpGeo, outcome |-> "raised"])]
    /\ UNCHANGED <<shpDone, shpCalls, notShpVars>>

AllDownloaded(attempts) ==
    /\ Len(attempts) = Len(geographies)
    /\ \A k \in 1..Len(attempts) : attempts[k].outcome = "downloaded"

\* The loop is over: the call returns.
ShpReturn ==
    /\ shp.pc = "loop"
    /\ shp.idx > Len(geographies)
    /\ shp' = [shp EXCEPT !.pc = "returned"]
    /\ shpDone' = IF AllDownloaded(shp.attempts)
                  THEN shpDone \cup {<<shp.year, shp.state, shp.dir>>}
                  ELSE shpDone
    /\ UNCHANGED <<files, shpCalls, notShpVars>>

ShpNext ==
    \/ \E y \in Years, s \in StateCodes, d \in Dirs : ShpCall(y, s, d)
    \/ ShpSkip
    \/ ShpDownload
    \/ ShpHttpError
    \/ ShpRequestRaises
    \/ ShpBadArchive
    \/ ShpReturn

(***************************************************************************)
(* Shapefile downloader: properties                                        *)
(***************************************************************************)
Outcomes(attempts) == {attempts[k].outcome : k \in 1..Len(attempts)}

\* C3: once a call with some year, state and dest_dir has downloaded all four
\* geographies, every later call with the same three arguments issues no
\* request (each geography is skipped) and leaves the directory as it found it.
C3_IdempotentDownload ==
    shp.repeat =>
        /\ Outcomes(shp.attempts) \subseteq {"skipped"}
        /\ files = shp.startFiles

\* A repeated call ran to its end: four geographies, all of them skipped.
C3_Witness ==
    /\ shp.repeat
    /\ shp.pc = "returned"
    /\ Len(shp.attempts) = Len(geographies)

C4_InOrder ==
    /\ Len(shp.attempts) <= Len(geographies)
    /\ \A k \in 1..Len(shp.attempts) : shp.attempts[k].geo = geographies[k]

C4_AllAttempted == shp.pc = "returned" => Len(shp.attempts) = Len(geographies)

C4_ErrorStep ==
    (/\ shp.pc = "loop"
     /\ Len(shp'.attempts) = Len(shp.attempts) + 1
     /\ shp'.attempts[Len(shp'.attempts)].outcome = "http_error")
    => /\ files' = files
       /\ shp'.pc = "loop"
       /\ shp'.idx = shp.idx + 1
       /\ Len(shp'.log) = Len(shp.log) + 1
       /\ shp'.log[Len(shp'.log)] = <<"Error downloading file from the URL",
                                      ShpUrl(shp.year, shp.state, ShpGeo)>>

C4_KeepsArchives == shp.pc = "loop" => files \subseteq files'

Num(n) == [kind |-> "num", n |-> n, d |-> 1, s |-> ""]
NaN == [kind |-> "nan", n |-> 0, d |-> 1, s |-> ""]
Inf(sign) == [kind |-> "inf", n |-> sign, d |-> 1, s |-> ""]
Str(s) == [kind |-> "str", n |-> 0, d |-> 1, s |-> s]

Sign(n) == IF n > 0 THEN 1 ELSE IF n < 0 THEN -1 ELSE 0

\* Float division as pandas does it: a missing operand gives a missing
\* value, x / 0 gives an infinity and 0 / 0 a missing value; nothing raises.
CellDiv(a, b) ==
    IF a.kind # "num" \/ b.kind # "num" THEN NaN
    ELSE IF b.n = 0 THEN (IF a.n = 0 THEN NaN ELSE Inf(Sign(a.n) * Sign(a.d)))
    ELSE [kind |-> "num", n |-> a.n * b.d, d |-> a.d * b.n, s |-> ""]

CellMul(a, b) ==
    IF a.kind # "num" \/ b.kind # "num" THEN NaN
    ELSE [kind |-> "num", n |-> a.n * b.n, d |-> a.d * b.d, s |-> ""]

\* Addition with missing values skipped (skipna=True, the default of sum()).
CellAddSkipNa(a, b) ==
    IF b.kind # "num" THEN a
    ELSE IF a.kind # "num" THEN b
    ELSE [kind |-> "num", n |-> a.n * b.d + b.n * a.d, d |-> a.d * b.d, s |-> ""]

RECURSIVE SumCells(_)
SumCells(cells) ==
    IF cells = <<>> THEN Num(0)
    ELSE CellAddSkipNa(SumCells(SubSeq(cells, 1, Len(cells) - 1)), cells[Len(cells)])

\* Two numeric cells hold the same rational number.
SameNumber(a, b) ==
    /\ a.kind = "num" /\ b.kind = "num"
    /\ a.d # 0 /\ b.d # 0
    /\ a.n * b.d = b.n * a.d

HasCol(t, c) == c \in DOMAIN t

\* df[c] = col: adds the column or overwrites it.
SetCol(t, c, col) == [x \in DOMAIN t \cup {c} |-> IF x = c THEN col ELSE t[x]]

NumRows(t) == IF DOMAIN t = {} THEN 0 ELSE Len(t[CHOOSE c \in DOMAIN t : TRUE])

RECURSIVE KeepRows(_, _)
KeepRows(col, mask) ==
    IF col = <<>> THEN <<>>
    ELSE LET rest == KeepRows(SubSeq(col, 1, Len(col) - 1), SubSeq(mask, 1, Len(mask) - 1))
         IN IF mask[Len(mask)] THEN Append(rest, col[Len(col)]) ELSE rest

\* df[mask]: a new table holding the rows where mask is true.
SelectRows(t, mask) == [c \in DOMAIN t |-> KeepRows(t[c], mask)]

NoTable == <<>>

(***************************************************************************)
(* compute_averages (src/main.py)                                          *)
(***************************************************************************)
\* int(x) of a cell: a whole number converts, a string such as "urban" or a
\* missing value raises ValueError.
IntOk(cell) == cell.kind = "num" /\ cell.d = 1

\* A plausible slip: range(1, 3), which leaves code 3 out.
RucaLabelShortRange(code) == IF code \in 1..2 THEN "urban" ELSE "rural"

\* "urban" if int(x) in range(1, 4) else "rural"
RucaLabel(code) == IF code \in 1..3 THEN "urban" ELSE "rural"

\* astype(float): numbers and missing values convert, other strings raise.
FloatOk(cell) == cell.kind \in {"num", "nan", "inf"}

total_population == <<"total_population">>
AverageCol(var) == <<"average_", var>>

\* Rows 115-118 on the selected rows: the row-wise total, then each share.
RECURSIVE AddAverages(_, _, _)
AddAverages(t, variables, k) ==
    IF k > Len(variables) THEN t
    ELSE AddAverages(
            SetCol(t, AverageCol(variables[k]),
                   [r \in 1..NumRows(t) |->
                       CellDiv(t[<<variables[k]>>][r], t[total_population][r])]),
            variables, k + 1)

WithTotal(t, variables) ==
    SetCol(t, total_population,
           [r \in 1..NumRows(t) |->
               SumCells([k \in 1..Len(variables) |-> t[<<variables[k]>>][r]])])

\* The rest of compute_averages once the rows are selected: sel is the new
\* table, caller the caller's table as the first part left it.
AveragesOfSelection(caller, sel, variables) ==
    IF \E k \in 1..Len(variables) : ~HasCol(sel, <<variables[k]>>)
    THEN [status |-> "KeyError", table |-> caller, out |-> NoTable]
    ELSE IF \E k \in 1..Len(variables), r \in 1..NumRows(sel) :
                ~FloatOk(sel[<<variables[k]>>][r])
    THEN [status |-> "ValueError", table |-> caller, out |-> NoTable]
    ELSE [status |-> "returned", table |-> caller,
          out |-> AddAverages(WithTotal(sel, variables), variables, 1)]

\* Lines 107-109: df["ruca"] = df["ruca"].apply(...), an assignment into the
\* caller's table.
RucaRewritten(t) ==
    SetCol(t, <<"ruca">>,
           [r \in 1..NumRows(t) |-> Str(RucaLabel(t[<<"ruca">>][r].n))])

\* compute_averages(df, variables, race, area, ruca): the outcome, the
\* caller's table afterwards and the table returned.
ComputeAverages(t, variables, race, area, ruca) ==
    IF ~ruca
    THEN IF ~HasCol(t, <<"race">>) \/ ~HasCol(t, <<"area">>)
         THEN [status |-> "KeyError", table |-> t, out |-> NoTable]
         ELSE AveragesOfSelection(t,
                SelectRows(t, [r \in 1..NumRows(t) |->
                    t[<<"race">>][r] = Str(race) /\ t[<<"area">>][r] = Str(area)]),
                variables)
    ELSE IF ~HasCol(t, <<"ruca">>)
         THEN [status |-> "KeyError", table |-> t, out |-> NoTable]
         ELSE IF \E r \in 1..NumRows(t) : ~IntOk(t[<<"ruca">>][r])
         THEN [status |-> "ValueError", table |-> t, out |-> NoTable]
         ELSE LET labelled == RucaRewritten(t)
              IN IF ~HasCol(labelled, <<"race">>)
                 THEN [status |-> "KeyError", table |-> labelled, out |-> NoTable]
                 ELSE AveragesOfSelection(labelled,
                        SelectRows(labelled, [r \in 1..NumRows(labelled) |->
                            /\ labelled[<<"race">>][r] = Str(race)
                            /\ labelled[<<"ruca">>][r] = Str(area)]),
                        variables)

AggIdle ==
    [fn |-> "", variables |-> <<>>, race |-> "", area |-> "", ruca |-> FALSE,
     races |-> <<>>, level |-> "", status |-> "", out |-> NoTable,
     before |-> NoTable]

\* A call compute_averages(df, variables, race, area, ruca) on the caller's df.
AvgCall(variables, race, area, ruca) ==
    LET r == ComputeAverages(df, variables, race, area, ruca)
    IN /\ df' = r.table
       /\ agg' = [AggIdle EXCEPT !.fn = "compute_averages", !.variables = variables,
                                 !.race = race, !.area = area, !.ruca = ruca,
                                 !.status = r.status, !.out = r.out, !.before = df]
       /\ UNCHANGED <<df0, notAggVars>>

\* process_census_data(...): the table just downloaded goes through
\* compute_averages and both tables are returned.
ProcessCall(variables, race, census_area, ruca) ==
    LET r == ComputeAverages(df, variables, race, census_area, ruca)
    IN /\ agg.fn = ""
       /\ df' = r.table
       /\ agg' = [AggIdle EXCEPT !.fn = "process_census_data", !.variables = variables,
                                 !.race = race, !.area = census_area, !.ruca = ruca,
                                 !.status = r.status, !.out = r.out, !.before = df]
       /\ UNCHANGED <<df0, notAggVars>>

(***************************************************************************)
(* compute_weights, compute_weighted_averages (census_averages/utils.py)   *)
(***************************************************************************)
race_code_map ==
    [race \in {"white", "black", "native", "asian"} |->
        CASE race = "white" -> "B02001_002E"
          [] race = "black" -> "B02001_003E"
          [] race = "native" -> "B02001_004E"
          [] race = "asian" -> "B02001_005E"]

WeightCol(race, level) == <<"weight_", race, "_", level>>

\* A plausible slip: the total over every race column of the table.
ColumnTotalAllRaces(t, code) ==
    SumCells([r \in 1..NumRows(t) |->
        SumCells([k \in 1..2 |->
            LET c == <<race_code_map[<<"white", "black">>[k]]>>
            IN IF HasCol(t, c) THEN t[c][r] ELSE Num(0)])])

\* df[race_code_map[race]].sum()
ColumnTotal(t, code) == SumCells(t[<<code>>])

\* compute_weights from the k-th race on: each iteration reads the race's
\* column (KeyError when it is absent) and assigns the weight column into df.
RECURSIVE ComputeWeightsFrom(_, _, _, _)
ComputeWeightsFrom(t, races, level, k) ==
    IF k > Len(races) THEN [status |-> "returned", table |-> t, out |-> t]
    ELSE LET code == race_code_map[races[k]]
         IN IF ~HasCol(t, <<code>>)
            THEN [status |-> "KeyError", table |-> t, out |-> NoTable]
            ELSE ComputeWeightsFrom(
                    SetCol(t, WeightCol(races[k], level),
                           [r \in 1..NumRows(t) |->
                               CellDiv(t[<<code>>][r], ColumnTotal(t, code))]),
                    races, level, k + 1)

ComputeWeights(t, races, level) == ComputeWeightsFrom(t, races, level, 1)

\* compute_weighted_averages from the k-th race on; acc is the new table.
RECURSIVE ComputeWeightedAveragesFrom(_, _, _, _, _)
ComputeWeightedAveragesFrom(t, acc, races, level, k) ==
    IF k > Len(races) THEN [status |-> "returned", table |-> t, out |-> acc]
    ELSE LET code == race_code_map[races[k]]
         IN IF ~HasCol(t, WeightCol(races[k], level)) \/ ~HasCol(t, <<code>>)
            THEN [status |-> "KeyError", table |-> t, out |-> NoTable]
            ELSE ComputeWeightedAveragesFrom(t,
                    SetCol(acc, <<races[k]>>,
                           [r \in 1..NumRows(t) |->
                               CellMul(t[WeightCol(races[k], level)][r], t[<<code>>][r])]),
                    races, level, k + 1)

ComputeWeightedAverages(t, races, level) ==
    ComputeWeightedAveragesFrom(t, NoTable, races, level, 1)

WeightsCall(races, level) ==
    LET r == ComputeWeights(df, races, level)
    IN /\ df' = r.table
       /\ agg' = [AggIdle EXCEPT !.fn = "compute_weights", !.races = races,
                                 !.level = level, !.status = r.status,
                                 !.out = r.out, !.before = df]
       /\ UNCHANGED <<df0, notAggVars>>

WeightedAveragesCall(races, level) ==
    LET r == ComputeWeightedAverages(df, races, level)
    IN /\ df' = r.table
       /\ agg' = [AggIdle EXCEPT !.fn = "compute_weighted_averages", !.races = races,
                                 !.level = level, !.status = r.status,
                                 !.out = r.out, !.before = df]
       /\ UNCHANGED <<df0, notAggVars>>

(***************************************************************************)
(* The tables the aggregators are run on                                   *)
(***************************************************************************)
VarA == "B02001_002E"
VarB == "B02001_003E"
VarAbsent == "B02001_004E"

AvgCols == {<<"race">>, <<"area">>, <<"ruca">>, <<VarA>>, <<VarB>>}

\* A table of the rows given (records of cells), without the columns dropped.
TableOf(rows, cols) == [c \in cols |-> [r \in 1..Len(rows) |-> rows[r][c]]]

AvgRow(race, code, a, b) ==
    [c \in AvgCols |->
        CASE c = <<"race">> -> Str(race)
          [] c = <<"area">> -> Str("a1")
          [] c = <<"ruca">> -> Num(code)
          [] c = <<VarA>> -> a
          [] c = <<VarB>> -> b]

AvgRows ==
    {AvgRow(who[1], who[2], ab[1], ab[2]) :
        who \in {<<"white", 1>>, <<"white", 4>>, <<"black", 1>>},
        ab \in {<<NaN, Num(1)>>, <<Num(2), Num(1)>>, <<Num(0), NaN>>, <<Num(2), NaN>>}}

RucaCodes == -2..12

RucaRows == {AvgRow("white", code, Num(2), Num(1)) : code \in RucaCodes}

GroupByCols == {<<"race">>, <<"area">>, <<"ruca">>}

AvgNext ==
    \/ \E variables \in {<<VarA, VarB>>, <<VarA, VarAbsent>>},
          where \in {<<"a1", FALSE>>, <<"urban", TRUE>>, <<"rural", TRUE>>} :
            AvgCall(variables, "white", where[1], where[2])
    \/ \E variables \in {<<VarA, VarB>>, <<VarA, VarAbsent>>},
          where \in {<<"a1", FALSE>>, <<"urban", TRUE>>, <<"rural", TRUE>>} :
            ProcessCall(variables, "white", where[1], where[2])

WeightCols == {<<VarA>>, <<VarB>>}

WeightRows ==
    {[c \in WeightCols |-> IF c = <<VarA>> THEN Num(a) ELSE Num(b)] :
        a \in {-1, 0, 1, 2}, b \in {0, 1}}

RaceLists == {<<"white">>, <<"white", "black">>, <<"black", "white">>}

WeightsNext ==
    \/ \E races \in RaceLists, level \in {"tract"} : WeightsCall(races, level)
    \/ \E races \in RaceLists, level \in {"tract"} : WeightedAveragesCall(races, level)

(***************************************************************************)
(* Aggregators: properties                                                 *)
(***************************************************************************)
IsAveragesCall == agg.fn \in {"compute_averages", "process_census_data"}

Rows(t) == 1..NumRows(t)

\* C1: with ruca=True every integer code of the ruca column is classified,
\* none is rejected: 1, 2 and 3 become "urban", every other integer (4 to 10,
\* and 0, negative codes and codes above 10 as well) becomes "rural"; the
\* rows returned are the rows of the race whose class is the area asked for.
C1_RucaBucketing ==
    (/\ IsAveragesCall /\ agg.ruca
     /\ HasCol(agg.before, <<"ruca">>)
     /\ \A r \in Rows(agg.before) : IntOk(agg.before[<<"ruca">>][r]))
    => /\ agg.status # "ValueError"
       /\ \A r \in Rows(agg.before) :
            df[<<"ruca">>][r] =
                Str(IF agg.before[<<"ruca">>][r].n \in {1, 2, 3} THEN "urban" ELSE "rural")
       /\ agg.status = "returned" => NumRows(agg.out) =
            Cardinality({r \in Rows(agg.before) :
                /\ agg.before[<<"race">>][r] = Str(agg.race)
                /\ (agg.before[<<"ruca">>][r].n \in {1, 2, 3}) = (agg.area = "urban")})

\* A call that classified code 3 and a code outside 1..10.
C1_Witness ==
    /\ IsAveragesCall /\ agg.ruca /\ agg.status = "returned"
    /\ \E r1, r2 \in Rows(agg.before) :
        /\ agg.before[<<"ruca">>][r1] = Num(3) /\ df[<<"ruca">>][r1] = Str("urban")
        /\ agg.before[<<"ruca">>][r2].kind = "num"
        /\ agg.before[<<"ruca">>][r2].n \notin 1..10
        /\ df[<<"ruca">>][r2] = Str("rural")

\* C2: an aggregator call that fails on a missing column fails before anything
\* is computed: the caller's table is as it was when the call began (no weight
\* column added, no ruca column rewritten) and nothing is returned.
C2_FailFast ==
    agg.status = "KeyError" => (df = agg.before /\ agg.out = NoTable)

\* C7: after compute_weights, for every race whose total population is not
\* zero, each weight is the row's population over the total and the weights
\* of the column add up to exactly 1.
C7_WeightsSumToOne ==
    (agg.fn = "compute_weights" /\ agg.status = "returned") =>
        \A k \in 1..Len(agg.races) :
            LET pop == agg.before[<<race_code_map[agg.races[k]]>>]
                total == SumCells(pop)
                w == df[WeightCol(agg.races[k], agg.level)]
            IN total.n # 0 =>
                /\ \A r \in Rows(df) :
                     w[r].kind = "num" /\ w[r].n * total.n = pop[r].n * w[r].d
                /\ SameNumber(SumCells(w), Num(1))

\* Weights of two races computed in one call, one of them a proper share.
C7_Witness ==
    /\ agg.fn = "compute_weights" /\ agg.status = "returned"
    /\ Len(agg.races) = 2
    /\ \A k \in 1..2 : SumCells(agg.before[<<race_code_map[agg.races[k]]>>]).n # 0
    /\ \E r \in Rows(df) :
         LET w == df[WeightCol("white", agg.level)][r]
         IN w.kind = "num" /\ w.n # 0 /\ ~SameNumber(w, Num(1))

\* C8: in the rows compute_averages returns, a missing target variable counts
\* as zero: when the row's total_population is not zero its average_<variable>
\* is 0, and no average_ column of the row holds a missing value.
C8_MissingCountsAsZero ==
    (IsAveragesCall /\ agg.status = "returned") =>
        \A r \in Rows(agg.out), k \in 1..Len(agg.variables) :
            (/\ agg.out[<<agg.variables[k]>>][r].kind = "nan"
             /\ agg.out[total_population][r].n # 0)
            => /\ SameNumber(agg.out[AverageCol(agg.variables[k])][r], Num(0))
               /\ \A j \in 1..Len(agg.variables) :
                    agg.out[AverageCol(agg.variables[j])][r].kind # "nan"

C10_TableUntouched ==
    (IsAveragesCall /\ agg.status = "returned") =>
        /\ df = agg.before
        /\ agg.fn = "process_census_data" => df = df0

C10_Repeatable ==
    (/\ IsAveragesCall /\ agg.status = "returned"
     /\ agg'.fn = "compute_averages"
     /\ agg'.variables = agg.variables /\ agg'.race = agg.race
     /\ agg'.area = agg.area /\ agg'.ruca = agg.ruca)
    => (agg'.status = "returned" /\ agg'.out = agg.out)

\* C10: compute_averages leaves the caller's table as it was, with ruca=False
\* and with ruca=True, so process_census_data returns the table as downloaded,
\* and the same call made again succeeds and returns the same table.
C10_InputUnchanged == []C10_TableUntouched /\ [][C10_Repeatable]_vars

(***************************************************************************)
(* Fetchers: download_acs_data (census_averages/utils.py) and              *)
(* download_census_data (main.py).  A URL is the sequence of the pieces    *)
(* the f-string puts together; an argument is one piece.                   *)
(***************************************************************************)
Locations == {"block group", "tract", "county", "state"}

\* location_key_map[location]
location_key_map(location, state, county, tract, block_group) ==
    CASE location = "block group" ->
            <<"&for=", "block%20group", ":", block_group,
              "&in=", "state", ":", state, "%20", "county", ":", county,
              "%20", "tract", ":", tract>>
      [] location = "tract" ->
            <<"&for=", "tract", ":", tract,
              "&in=", "state", ":", state, "%20", "county", ":", county>>
      [] location = "county" ->
            <<"&for=", "county", ":", county, "&in=", "state", ":", state>>
      [] location = "state" ->
            <<"&for=", "state", ":", state>>

\* query_url of download_acs_data
AcsQueryUrl(variables, user_key, location, state, county, tract, block_group) ==
    <<"https://api.census.gov/data/", "2019", "/", "acs5", "?get=", variables,
      "&key=", user_key>>
        \o location_key_map(location, state, county, tract, block_group)

\* data_url of download_census_data: the tract and block group filters are
\* appended to the finished string, after the key.
CensusDataUrl(api_key, year, dataset, variables, geography, state, county, tract, block_group) ==
    <<"https://api.census.gov/data/", year, "/", dataset, "?get=", variables,
      "&for=", geography, ":", "*",
      "&in=", "state", ":", state, "%20", "county", ":", county,
      "&key=", api_key>>
        \o (IF tract # "*" THEN <<"%20", "tract", ":", tract>> ELSE <<>>)
        \o (IF block_group # "*" THEN <<"%20", "block%20group", ":", block_group>>
            ELSE <<>>)

\* How a server splits the query string: a parameter starts at "?name=" or
\* "&name=" and its value runs to the next "&".
ParamMarks == {"?get=", "&for=", "&in=", "&key="}

RECURSIVE ValueFrom(_, _)
ValueFrom(url, k) ==
    IF k > Len(url) \/ url[k] \in ParamMarks THEN <<>>
    ELSE <<url[k]>> \o ValueFrom(url, k + 1)

HasParam(url, mark) == \E k \in 1..Len(url) : url[k] = mark

ParamValue(url, mark) ==
    IF HasParam(url, mark)
    THEN ValueFrom(url, 1 + CHOOSE k \in 1..Len(url) : url[k] = mark)
    ELSE <<>>

\* A response body.  syntax: "literal" reads both as JSON and as a Python
\* literal, "json" only as JSON (it holds null, true or false), "text" as
\* neither.  shape: a list of rows or a JSON object.
Body(syntax, shape, rows) == [syntax |-> syntax, shape |-> shape, rows |-> rows]

Bodies ==
    { Body("literal", "rows", <<<<"NAME", "state">>, <<"Minnesota", "27">>>>),
      Body("literal", "rows", <<<<"NAME", "state">>>>),
      Body("literal", "rows", <<>>),
      Body("literal", "rows", <<<<"NAME", "state">>, <<"Minnesota">>>>),
      Body("json", "rows", <<<<"NAME", "state">>, <<"null", "27">>>>),
      Body("literal", "object", <<>>),
      Body("text", "rows", <<>>) }

Statuses == {200, 404, 500}

\* pd.DataFrame(data[1:], columns=data[0]) of a parsed body
FrameOf(body) ==
    IF body.shape # "rows" THEN [status |-> "TypeError", table |-> NoTable]
    ELSE IF body.rows = <<>> THEN [status |-> "IndexError", table |-> NoTable]
    ELSE IF \E r \in 2..Len(body.rows) : Len(body.rows[r]) # Len(body.rows[1])
    THEN [status |-> "ValueError", table |-> NoTable]
    ELSE [status |-> "returned",
          table |-> [c \in {<<body.rows[1][j]>> : j \in 1..Len(body.rows[1])} |->
                        [r \in 1..(Len(body.rows) - 1) |->
                            Str(body.rows[r + 1][CHOOSE j \in 1..Len(body.rows[1]) :
                                                    <<body.rows[1][j]>> = c])]]]

\* Lines 58-63 of utils.py: the status is not looked at; the text goes through
\* ast.literal_eval.
AcsResult(status, body) ==
    IF body.syntax # "literal" THEN [status |-> "ValueError", table |-> NoTable]
    ELSE FrameOf(body)

\* Lines 58-64 of main.py: the status is not looked at; response.json().
CensusDataResult(status, body) ==
    IF body.syntax = "text" THEN [status |-> "JSONDecodeError", table |-> NoTable]
    ELSE FrameOf(body)

FetchIdle ==
    [fn |-> "", key |-> "", level |-> "", state |-> "", county |-> "", tract |-> "",
     block_group |-> "", url |-> <<>>, http |-> 0, raised |-> FALSE,
     status |-> "", table |-> NoTable]

\* download_acs_data(...) with the response the server gives.
AcsCall(user_key, location, state, county, tract, block_group, http, body) ==
    LET r == AcsResult(http, body)
    IN /\ fetch' = [FetchIdle EXCEPT
                       !.fn = "download_acs_data", !.key = user_key, !.level = location,
                       !.state = state, !.county = county, !.tract = tract,
                       !.block_group = block_group,
                       !.url = AcsQueryUrl("B02001_002E", user_key, location, state,
                                           county, tract, block_group),
                       !.http = http, !.status = r.status, !.table = r.table]
       /\ UNCHANGED notFetchVars

\* download_census_data(..., ruca=False) with the response the server gives.
CensusDataCall(api_key, geography, state, county, tract, block_group, http, body) ==
    LET r == CensusDataResult(http, body)
    IN /\ fetch' = [FetchIdle EXCEPT
                       !.fn = "download_census_data", !.key = api_key,
                       !.level = geography,
                       !.state = state, !.county = county, !.tract = tract,
                       !.block_group = block_group,
                       !.url = CensusDataUrl(api_key, "2019", "acs5", "B02001_002E",
                                             geography, state, county, tract,
                                             block_group),
                       !.http = http, !.status = r.status, !.table = r.table]
       /\ UNCHANGED notFetchVars

\* requests.get raises (no connection, or the 10 s timeout of main.py).
FetchRaises(fn) ==
    /\ fetch' = [FetchIdle EXCEPT !.fn = fn, !.raised = TRUE,
                                  !.status = "ConnectionError"]
    /\ UNCHANGED notFetchVars

FetchNext ==
    \/ \E location \in Locations, county \in {"*", "053"}, tract \in {"*", "000100"},
          block_group \in {"*", "1"}, http \in Statuses, body \in Bodies :
            AcsCall("KEY", location, "27", county, tract, block_group, http, body)
    \/ \E geography \in Locations, county \in {"*", "053"}, tract \in {"*", "000100"},
          block_group \in {"*", "1"}, http \in Statuses, body \in Bodies :
            CensusDataCall("KEY", geography, "27", county, tract, block_group, http, body)
    \/ \E fn \in {"download_acs_data", "download_census_data"} : FetchRaises(fn)

(***************************************************************************)
(* Fetchers: properties                                                    *)
(***************************************************************************)
\* C5: a response whose status is not a success status ends the call in an
\* error and no table is returned, whatever its body; a table is returned
\* only for a success status.
C5_NonSuccessIsFatal ==
    (fetch.fn # "" /\ ~fetch.raised /\ fetch.http \notin 200..299)
        => (fetch.status # "returned" /\ fetch.table = NoTable)

Unquoted(piece) == IF piece = "block%20group" THEN "block group" ELSE piece

ParentsOf(level, state, county, tract) ==
    CASE level = "state" -> <<>>
      [] level = "county" -> <<"state", ":", state>>
      [] level = "tract" -> <<"state", ":", state, "%20", "county", ":", county>>
      [] level = "block group" ->
            <<"state", ":", state, "%20", "county", ":", county,
              "%20", "tract", ":", tract>>

\* C6: the query string has a `for` clause naming the level asked for, an `in`
\* clause holding exactly the parent levels' codes in the order state, county,
\* tract, and a `key` parameter whose value is the API key and nothing else.
C6_QueryConstruction ==
    (fetch.fn # "" /\ ~fetch.raised) =>
        /\ Len(ParamValue(fetch.url, "&for=")) = 3
        /\ Unquoted(ParamValue(fetch.url, "&for=")[1]) = fetch.level
        /\ ParamValue(fetch.url, "&in=")
             = ParentsOf(fetch.level, fetch.state, fetch.county, fetch.tract)
        /\ ParamValue(fetch.url, "&key=") = <<fetch.key>>

(***************************************************************************)
(* CLI driver: main (census_averages/main.py)                              *)
(***************************************************************************)
\* The names bound in the module when main runs: its imports and main itself.
ModuleGlobals == {"click", "pd", "utils", "tabulate", "main"}

\* Parameters a function of utils.py cannot be called without.
RequiredArgs(callee) ==
    CASE callee = "download_acs_data" -> 2
      [] callee = "merge_areas" -> 2
      [] callee = "compute_weights" -> 3
      [] callee = "compute_weighted_averages" -> 3
      [] OTHER -> 0

\* The statements of main in order: the stage, the name the call is looked
\* up under, the function called, the arguments passed, and what in the
\* environment the call needs.
Statements ==
    << [stage |-> "fetch", name |-> "download_acs_data",
        callee |-> "download_acs_data", nargs |-> 7, needs |-> "api"],
       [stage |-> "load", name |-> "pd", callee |-> "read_csv", nargs |-> 1,
        needs |-> "outcome_csv"],
       [stage |-> "spatial_merge", name |-> "merge_areas", callee |-> "merge_areas",
        nargs |-> 4, needs |-> "shapefile"],
       [stage |-> "weights", name |-> "compute_weights",
        callee |-> "compute_weights", nargs |-> 2, needs |-> "columns"],
       [stage |-> "join_weights", name |-> "pd", callee |-> "merge", nargs |-> 4,
        needs |-> "columns"],
       [stage |-> "weighted_averages", name |-> "compute_weighted_averages",
        callee |-> "compute_weighted_averages", nargs |-> 2, needs |-> "columns"],
       [stage |-> "write_csv", name |-> "average_data", callee |-> "to_csv",
        nargs |-> 2, needs |-> "output_dir"],
       [stage |-> "display", name |-> "tabulate", callee |-> "tabulate", nargs |-> 3,
        needs |-> "nothing"] >>

Needs == {"api", "outcome_csv", "shapefile", "columns", "output_dir"}

\* Local names main has bound when statement k runs.
LocalsAt(k) == IF k > 6 THEN {"average_data"} ELSE {}

\* The outcome of statement k in environment env (what is available).
StatementOutcome(k, env) ==
    LET st == Statements[k]
    IN IF st.name \notin ModuleGlobals \cup LocalsAt(k) THEN "NameError"
       ELSE IF st.nargs < RequiredArgs(st.callee) THEN "TypeError"
       ELSE IF st.needs \in Needs \ env THEN "failed"
       ELSE "ok"

DrvStart(display_results, env) ==
    [pc |-> 1, display_results |-> display_results, env |-> env, trace |-> <<>>,
     error |-> "", exit |-> "running"]

\* One statement of main runs.  The display statement is skipped without
\* --display_results.  An exception ends the run with an error, the end of
\* the last statement ends it normally.
DrvStep ==
    /\ drv.exit = "running"
    /\ drv.pc <= Len(Statements)
    /\ LET st == Statements[drv.pc]
           outcome == StatementOutcome(drv.pc, drv.env)
           after == IF drv.pc = Len(Statements) THEN "ok" ELSE "running"
       IN IF st.stage = "display" /\ ~drv.display_results
          THEN drv' = [drv EXCEPT !.pc = @ + 1, !.exit = after]
          ELSE drv' = [drv EXCEPT !.pc = IF outcome = "ok" THEN @ + 1 ELSE @,
                                  !.trace = Append(@, st.stage),
                                  !.error = IF outcome = "ok" THEN "" ELSE outcome,
                                  !.exit = IF outcome = "ok" THEN after ELSE "error"]
    /\ UNCHANGED notDrvVars

\* The program is run again.
DrvRerun ==
    /\ drv.exit # "running"
    /\ \E display_results \in BOOLEAN, env \in SUBSET Needs :
          drv' = DrvStart(display_results, env)
    /\ UNCHANGED notDrvVars

DrvNext == DrvStep \/ DrvRerun

(***************************************************************************)
(* CLI driver: properties                                                  *)
(***************************************************************************)
StageOrder ==
    <<"fetch", "load", "spatial_merge", "weights", "join_weights",
      "weighted_averages", "write_csv", "display">>

Position(stage) == CHOOSE k \in 1..Len(StageOrder) : StageOrder[k] = stage

AggIdleInit ==
    /\ df = NoTable
    /\ df0 = NoTable
    /\ agg = AggIdle

FetchIdleInit == fetch = FetchIdle

DrvIdleInit == drv = DrvStart(FALSE, {})

InitShp == ShpInit /\ AggIdleInit /\ FetchIdleInit /\ DrvIdleInit

SpecShp == InitShp /\ [][ShpNext]_vars

InitFetch == ShpInit /\ AggIdleInit /\ FetchIdleInit /\ DrvIdleInit

SpecFetch == InitFetch /\ [][FetchNext]_vars

InitDriver ==
    /\ \E display_results \in BOOLEAN, env \in SUBSET Needs :
          drv = DrvStart(display_results, env)
    /\ ShpInit /\ AggIdleInit /\ FetchIdleInit

SpecDriver == InitDriver /\ [][DrvNext]_vars

InitAvg ==
    /\ \E rows \in [1..NRows -> AvgRows], dropped \in {{}} \cup {{c} : c \in GroupByCols} :
          df = TableOf(rows, AvgCols \ dropped)
    /\ df0 = df
    /\ agg = AggIdle
    /\ ShpInit /\ FetchIdleInit /\ DrvIdleInit

SpecAvg == InitAvg /\ [][AvgNext]_vars

InitRuca ==
    /\ \E rows \in [1..NRows -> RucaRows] : df = TableOf(rows, AvgCols)
    /\ df0 = df
    /\ agg = AggIdle
    /\ ShpInit /\ FetchIdleInit /\ DrvIdleInit

SpecRuca == InitRuca /\ [][AvgNext]_vars

InitWeights ==
    /\ \E rows \in [1..NRows -> WeightRows], dropped \in {{}} \cup {{c} : c \in WeightCols} :
          df = TableOf(rows, WeightCols \ dropped)
    /\ df0 = df
    /\ agg = AggIdle
    /\ ShpInit /\ FetchIdleInit /\ DrvIdleInit

SpecWeights == InitWeights /\ [][WeightsNext]_vars

====
